---------------------------- MODULE Spec2Model ----------------------------
(***************************************************************************)
(* CORA (Cloud Operations and Resource Assistant), src/main.py.            *)
(*                                                                         *)
(* Text is modelled as a sequence of Unicode code points, bytes as a       *)
(* sequence of numbers 0..255, so that lower(), split(), the substring     *)
(* test, "\n".join and bytes.decode() are computed, not assumed.           *)
(* Python values that can be of several types are tagged records:          *)
(*   None  [type |-> "NoneType"]      str  [type |-> "str", val |-> text]  *)
(*   int   [type |-> "int", val |-> n] dict [type |-> "dict", items |-> s] *)
(*   list  [type |-> "list", items |-> s]                                  *)
(* An exception is [type |-> <class name>, msg |-> <str(e)>].              *)
(***************************************************************************)
EXTENDS Integers, Sequences, FiniteSets, TLC

VARIABLES
    \* ---- CORA.get_aws_cli_example called on its own
    retr_pc,            \* "ready" | "returned"
    retr_kb,            \* self.knowledge_base
    retr_query,         \* query
    retr_result,        \* the returned value (None before the return)
    \* ---- execute_aws_command called on its own
    exec_pc,            \* "spawning" | "communicating" | "returned"
    exec_command,       \* command (a Python value)
    exec_process,       \* process: "none" | "running" | "exited"
    exec_returncode,    \* process.returncode after communicate()
    exec_stdout,        \* the bytes communicate() returned
    exec_stderr,
    exec_exc,           \* the exception caught at line 40, or None
    exec_result,        \* the returned value (None before the return)
    \* ---- a CORA instance and its process_query calls
    knowledge_base,     \* self.knowledge_base
    pc,                 \* "idle" | "request1" | "spawning" | "communicating"
                        \*   | "request2" | "done"
    calls,              \* process_query calls started so far
    user_query,         \* user_query
    retrievals,         \* the queries get_aws_cli_example was called with
                        \*   in this call
    messages,           \* messages
    requests,           \* the keyword arguments of each
                        \*   client.chat.completions.create of this call
    response,           \* response (None before the first reply)
    function_name,      \* function_name (None before it is bound)
    function_args,      \* function_args (None before it is bound)
    executed,           \* the arguments execute_aws_command was called with
                        \*   in this call
    result,             \* result (None before the Executor returns)
    final_response,     \* final_response (None before the second reply)
    caught,             \* the exceptions raised in this call and where
    outcome             \* how the call ended: [kind |-> "pending"],
                        \*   [kind |-> "returned", value |-> v] or
                        \*   [kind |-> "raised", exc |-> e]

retr_vars == <<retr_pc, retr_kb, retr_query, retr_result>>
exec_vars == <<exec_pc, exec_command, exec_process, exec_returncode, exec_stdout,
               exec_stderr, exec_exc, exec_result>>

cora_vars == <<knowledge_base, pc, calls, user_query, retrievals, messages, requests,
               response, function_name, function_args, executed, result,
               final_response, caught, outcome>>

vars == <<retr_vars, exec_vars, cora_vars>>

(***************************************************************************)
(* Bounds of the model                                                     *)
(***************************************************************************)
\* longest query handed to get_aws_cli_example on its own
MaxQueryLen == 3
\* longest captured stdout / stderr handed to execute_aws_command on its own
MaxStreamLen == 2
\* process_query calls made on one CORA instance
MaxCalls == 2

(***************************************************************************)
(* Text                                                                    *)
(***************************************************************************)
\* every sequence over alphabet of length at most n
SeqsUpTo(alphabet, n) == UNION {[1..k -> alphabet] : k \in 0..n}

RECURSIVE Flatten(_)
\* list.extend applied in order: the concatenation of a sequence of sequences
Flatten(ss) == IF ss = <<>> THEN <<>> ELSE Head(ss) \o Flatten(Tail(ss))

\* str.isspace() for one code point: what str.split() with no argument splits on
IsSpace(c) ==
    \/ c \in 9..13
    \/ c \in 28..32
    \/ c \in {133, 160, 5760, 8232, 8233, 8239, 8287, 12288}
    \/ c \in 8192..8202

\* str.lower() for one code point below 256 (ASCII and Latin-1 capitals)
LowerChar(c) ==
    IF c \in 65..90 \/ c \in 192..214 \/ c \in 216..222 THEN c + 32 ELSE c

\* str.lower()
lower(s) == [i \in 1..Len(s) |-> LowerChar(s[i])]

RECURSIVE SplitFrom(_, _, _)
\* the words of s from position i on, cur being the word under construction
SplitFrom(s, i, cur) ==
    IF i > Len(s)
    THEN IF cur = <<>> THEN <<>> ELSE <<cur>>
    ELSE IF IsSpace(s[i])
         THEN IF cur = <<>>
              THEN SplitFrom(s, i + 1, <<>>)
              ELSE <<cur>> \o SplitFrom(s, i + 1, <<>>)
         ELSE SplitFrom(s, i + 1, Append(cur, s[i]))

\* str.split(): the maximal runs of non-whitespace, in order
split(s) == SplitFrom(s, 1, <<>>)

\* the Python test "sub in s" on two strings
Contains(sub, s) ==
    \E k \in 0..(Len(s) - Len(sub)) : SubSeq(s, k + 1, k + Len(sub)) = sub

RECURSIVE join(_, _)
\* sep.join(list)
join(sep, list) ==
    IF list = <<>> THEN <<>>
    ELSE IF Len(list) = 1 THEN list[1]
    ELSE list[1] \o sep \o join(sep, Tail(list))

\* "\n"
NL == <<10>>
\* "No examples found"
NoExamplesFound ==
    <<78, 111, 32, 101, 120, 97, 109, 112, 108, 101, 115, 32, 102, 111, 117,
      110, 100>>

(***************************************************************************)
(* The KnowledgeBase: a dict, i.e. a sequence of (key, examples) entries   *)
(* with distinct keys, iterated in insertion order.                        *)
(***************************************************************************)
\* the knowledge base built in main(): "list ec2 instances", "create s3 bucket"
SampleKnowledgeBase ==
    << [key |-> <<108, 105, 115, 116, 32, 101, 99, 50, 32, 105, 110, 115, 116,
                  97, 110, 99, 101, 115>>,
        examples |->
          << \* "aws ec2 describe-instances"
             <<97, 119, 115, 32, 101, 99, 50, 32, 100, 101, 115, 99, 114, 105,
               98, 101, 45, 105, 110, 115, 116, 97, 110, 99, 101, 115>>,
             \* "aws ec2 describe-instances --filters Name=instance-state-name,Values=running"
             <<97, 119, 115, 32, 101, 99, 50, 32, 100, 101, 115, 99, 114, 105,
               98, 101, 45, 105, 110, 115, 116, 97, 110, 99, 101, 115, 32, 45,
               45, 102, 105, 108, 116, 101, 114, 115, 32, 78, 97, 109, 101, 61,
               105, 110, 115, 116, 97, 110, 99, 101, 45, 115, 116, 97, 116,
               101, 45, 110, 97, 109, 101, 44, 86, 97, 108, 117, 101, 115, 61,
               114, 117, 110, 110, 105, 110, 103>> >>],
       [key |-> <<99, 114, 101, 97, 116, 101, 32, 115, 51, 32, 98, 117, 99,
                  107, 101, 116>>,
        examples |->
          << \* "aws s3 mb s3://bucket-name"
             <<97, 119, 115, 32, 115, 51, 32, 109, 98, 32, 115, 51, 58, 47, 47,
               98, 117, 99, 107, 101, 116, 45, 110, 97, 109, 101>>,
             \* "aws s3api create-bucket --bucket bucket-name --region region-name"
             <<97, 119, 115, 32, 115, 51, 97, 112, 105, 32, 99, 114, 101, 97,
               116, 101, 45, 98, 117, 99, 107, 101, 116, 32, 45, 45, 98, 117,
               99, 107, 101, 116, 32, 98, 117, 99, 107, 101, 116, 45, 110, 97,
               109, 101, 32, 45, 45, 114, 101, 103, 105, 111, 110, 32, 114,
               101, 103, 105, 111, 110, 45, 110, 97, 109, 101>> >>] >>

\* a knowledge base with a capitalised key, an entry that has no examples,
\* an empty example and an example registered under two keys:
\*   {"EC2": [], "s3 ls": ["aws s3 ls", ""], "S3 2": ["aws s3 ls"]}
SmallKnowledgeBase ==
    << [key |-> <<69, 67, 50>>, examples |-> << >>],
       [key |-> <<115, 51, 32, 108, 115>>,
        examples |-> << <<97, 119, 115, 32, 115, 51, 32, 108, 115>>, << >> >>],
       [key |-> <<83, 51, 32, 50>>,
        examples |-> << <<97, 119, 115, 32, 115, 51, 32, 108, 115>> >>] >>

\* the knowledge bases a CORA is constructed with
KnowledgeBases == {SampleKnowledgeBase, SmallKnowledgeBase, << >>}

(***************************************************************************)
(* CORA.get_aws_cli_example                                                *)
(***************************************************************************)
\* any(word.lower() in key.lower() for word in query.split())
KeyMatches(key, query) ==
    \E i \in 1..Len(split(query)) :
        Contains(lower(split(query)[i]), lower(key))

RECURSIVE RelevantExamples(_, _)
\* relevant_examples after the loop over self.knowledge_base.items()
RelevantExamples(kb, query) ==
    IF kb = <<>> THEN <<>>
    ELSE (IF KeyMatches(Head(kb).key, query) THEN Head(kb).examples ELSE <<>>)
         \o RelevantExamples(Tail(kb), query)

\* faulty variant: joins without testing the accumulator
get_aws_cli_example_join_always(kb, query) ==
    join(NL, RelevantExamples(kb, query))
get_aws_cli_example(kb, query) ==
    IF RelevantExamples(kb, query) # <<>>
    THEN join(NL, RelevantExamples(kb, query))
    ELSE NoExamplesFound

(***************************************************************************)
(* Python values and exceptions                                            *)
(***************************************************************************)
None == [type |-> "NoneType"]
PyStr(s) == [type |-> "str", val |-> s]
PyInt(n) == [type |-> "int", val |-> n]
Exc(t, m) == [type |-> t, msg |-> m]

RECURSIVE Decimal(_)
\* str(n) / "%d" for n >= 0
Decimal(n) == IF n < 10 THEN <<48 + n>> ELSE Decimal(n \div 10) \o <<48 + (n % 10)>>

\* "0123456789abcdef"
HexDigits == <<48, 49, 50, 51, 52, 53, 54, 55, 56, 57, 97, 98, 99, 100, 101, 102>>
\* "%02x" for one byte
Hex2(b) == <<HexDigits[(b \div 16) + 1], HexDigits[(b % 16) + 1]>>

(***************************************************************************)
(* bytes.decode(): strict UTF-8, as stdout.decode() / stderr.decode()      *)
(***************************************************************************)
IsContinuation(b) == b \in 128..191

\* the second byte a three- or four-byte lead admits (no overlong forms, no
\* surrogates, nothing above U+10FFFF)
SecondByteOk(lead, b) ==
    CASE lead = 224 -> b \in 160..191
      [] lead = 237 -> b \in 128..159
      [] lead = 240 -> b \in 144..191
      [] lead = 244 -> b \in 128..143
      [] OTHER -> IsContinuation(b)

\* "invalid start byte", "invalid continuation byte", "unexpected end of data"
InvalidStartByte ==
    <<105, 110, 118, 97, 108, 105, 100, 32, 115, 116, 97, 114, 116, 32, 98,
      121, 116, 101>>
InvalidContinuationByte ==
    <<105, 110, 118, 97, 108, 105, 100, 32, 99, 111, 110, 116, 105, 110, 117,
      97, 116, 105, 111, 110, 32, 98, 121, 116, 101>>
UnexpectedEndOfData ==
    <<117, 110, 101, 120, 112, 101, 99, 116, 101, 100, 32, 101, 110, 100, 32,
      111, 102, 32, 100, 97, 116, 97>>

Char(cp, n) == [ok |-> TRUE, cp |-> cp, len |-> n]
Bad(reason, n) == [ok |-> FALSE, reason |-> reason, len |-> n]

\* the character that starts at position i of bs (1-based), or the error the
\* decoder reports there with the number of bytes it blames
DecodeAt(bs, i) ==
    LET b0 == bs[i]
        avail == Len(bs) - i + 1
        b1 == bs[i + 1]
        b2 == bs[i + 2]
        b3 == bs[i + 3]
    IN  IF b0 < 128 THEN Char(b0, 1)
        ELSE IF b0 < 194 THEN Bad(InvalidStartByte, 1)
        ELSE IF b0 < 224 THEN
            IF avail < 2 THEN Bad(UnexpectedEndOfData, 1)
            ELSE IF ~IsContinuation(b1) THEN Bad(InvalidContinuationByte, 1)
            ELSE Char((b0 - 192) * 64 + (b1 - 128), 2)
        ELSE IF b0 < 240 THEN
            IF avail < 2 THEN Bad(UnexpectedEndOfData, 1)
            ELSE IF ~SecondByteOk(b0, b1) THEN Bad(InvalidContinuationByte, 1)
            ELSE IF avail < 3 THEN Bad(UnexpectedEndOfData, 2)
            ELSE IF ~IsContinuation(b2) THEN Bad(InvalidContinuationByte, 2)
            ELSE Char((b0 - 224) * 4096 + (b1 - 128) * 64 + (b2 - 128), 3)
        ELSE IF b0 < 245 THEN
            IF avail < 2 THEN Bad(UnexpectedEndOfData, 1)
            ELSE IF ~SecondByteOk(b0, b1) THEN Bad(InvalidContinuationByte, 1)
            ELSE IF avail < 3 THEN Bad(UnexpectedEndOfData, 2)
            ELSE IF ~IsContinuation(b2) THEN Bad(InvalidContinuationByte, 2)
            ELSE IF avail < 4 THEN Bad(UnexpectedEndOfData, 3)
            ELSE IF ~IsContinuation(b3) THEN Bad(InvalidContinuationByte, 3)
            ELSE Char((b0 - 240) * 262144 + (b1 - 128) * 4096
                      + (b2 - 128) * 64 + (b3 - 128), 4)
        ELSE Bad(InvalidStartByte, 1)

\* str(UnicodeDecodeError): start is the 0-based position, n the bytes blamed
UnicodeDecodeErrorText(bs, start, n, reason) ==
    IF n = 1
    THEN \* "'utf-8' codec can't decode byte 0x" .. " in position " .. ": "
         <<39, 117, 116, 102, 45, 56, 39, 32, 99, 111, 100, 101, 99, 32, 99,
           97, 110, 39, 116, 32, 100, 101, 99, 111, 100, 101, 32, 98, 121,
           116, 101, 32, 48, 120>>
         \o Hex2(bs[start + 1])
         \o <<32, 105, 110, 32, 112, 111, 115, 105, 116, 105, 111, 110, 32>>
         \o Decimal(start) \o <<58, 32>> \o reason
    ELSE \* "'utf-8' codec can't decode bytes in position " .. "-" .. ": "
         <<39, 117, 116, 102, 45, 56, 39, 32, 99, 111, 100, 101, 99, 32, 99,
           97, 110, 39, 116, 32, 100, 101, 99, 111, 100, 101, 32, 98, 121,
           116, 101, 115, 32, 105, 110, 32, 112, 111, 115, 105, 116, 105, 111,
           110, 32>>
         \o Decimal(start) \o <<45>> \o Decimal(start + n - 1)
         \o <<58, 32>> \o reason

RECURSIVE DecodeFrom(_, _, _)
DecodeFrom(bs, i, acc) ==
    IF i > Len(bs) THEN [ok |-> TRUE, text |-> acc]
    ELSE LET d == DecodeAt(bs, i)
         IN  IF d.ok THEN DecodeFrom(bs, i + d.len, Append(acc, d.cp))
             ELSE [ok |-> FALSE,
                   exc |-> Exc("UnicodeDecodeError",
                               UnicodeDecodeErrorText(bs, i - 1, d.len, d.reason))]

\* bs.decode(): [ok |-> TRUE, text] or [ok |-> FALSE, exc]
decode(bs) == DecodeFrom(bs, 1, <<>>)

(***************************************************************************)
(* execute_aws_command                                                     *)
(***************************************************************************)
\* "Error: "
ErrorMarker == <<69, 114, 114, 111, 114, 58, 32>>
\* "Error executing command: "
ErrorExecutingCommand ==
    <<69, 114, 114, 111, 114, 32, 101, 120, 101, 99, 117, 116, 105, 110, 103,
      32, 99, 111, 109, 109, 97, 110, 100, 58, 32>>

\* "cmd must be a string": asyncio refuses a command that is not str or bytes
CmdMustBeAString ==
    Exc("ValueError",
        <<99, 109, 100, 32, 109, 117, 115, 116, 32, 98, 101, 32, 97, 32, 115,
          116, 114, 105, 110, 103>>)

\* exceptions the operating system may raise from create_subprocess_shell:
\* "[Errno 2] No such file or directory: '/bin/sh'", "[Errno 12] Cannot allocate memory"
SpawnExceptions ==
    { Exc("FileNotFoundError",
          <<91, 69, 114, 114, 110, 111, 32, 50, 93, 32, 78, 111, 32, 115, 117,
            99, 104, 32, 102, 105, 108, 101, 32, 111, 114, 32, 100, 105, 114,
            101, 99, 116, 111, 114, 121, 58, 32, 39, 47, 98, 105, 110, 47,
            115, 104, 39>>),
      Exc("OSError",
          <<91, 69, 114, 114, 110, 111, 32, 49, 50, 93, 32, 67, 97, 110, 110,
            111, 116, 32, 97, 108, 108, 111, 99, 97, 116, 101, 32, 109, 101,
            109, 111, 114, 121>>) }

\* exceptions process.communicate() may raise: "[Errno 32] Broken pipe"
CommunicateExceptions ==
    { Exc("BrokenPipeError",
          <<91, 69, 114, 114, 110, 111, 32, 51, 50, 93, 32, 66, 114, 111, 107,
            101, 110, 32, 112, 105, 112, 101>>) }

\* what `await asyncio.create_subprocess_shell(command, ...)` can do
SpawnOutcomes(command) ==
    IF command.type = "str"
    THEN {[ok |-> TRUE]} \cup {[ok |-> FALSE, exc |-> e] : e \in SpawnExceptions}
    ELSE {[ok |-> FALSE, exc |-> CmdMustBeAString]}

\* the except branch: f"Error executing command: {str(e)}"
\* faulty variant: str(e) without the prefix
execute_aws_command_except_message_only(e) == PyStr(e.msg)
execute_aws_command_except(e) == PyStr(ErrorExecutingCommand \o e.msg)

\* the exception, if any, raised between communicate() and the return
ExceptionAfterCommunicate(returncode, stdout, stderr) ==
    LET d == IF returncode # 0 THEN decode(stderr) ELSE decode(stdout)
    IN  IF d.ok THEN None ELSE d.exc

\* the body after `stdout, stderr = await process.communicate()`
execute_aws_command_returns(returncode, stdout, stderr) ==
    IF returncode # 0
    THEN LET d == decode(stderr)
         IN  IF d.ok THEN PyStr(ErrorMarker \o d.text)
             ELSE execute_aws_command_except(d.exc)
    ELSE LET d == decode(stdout)
         IN  IF d.ok THEN PyStr(d.text)
             ELSE execute_aws_command_except(d.exc)

(***************************************************************************)
(* execute_aws_command on its own: the command is drawn in ExecInit, the    *)
(* two awaits (spawn, communicate) are the steps.                          *)
(***************************************************************************)
\* 'o', '\n', 0xC3 0xA9 (the two bytes of U+00E9), 0xFF (never valid)
ByteAlphabet == {111, 10, 195, 169, 255}
Streams == SeqsUpTo(ByteAlphabet, MaxStreamLen)
\* exit statuses: success, failure, killed by SIGKILL
ReturnCodes == {0, 1, -9}
\* "ls", 5, None
ExecCommands == {PyStr(<<108, 115>>), PyInt(5), None}

ExecInit ==
    /\ exec_pc = "spawning"
    /\ exec_command \in ExecCommands
    /\ exec_process = "none"
    /\ exec_returncode = 0
    /\ exec_stdout = <<>>
    /\ exec_stderr = <<>>
    /\ exec_exc = None
    /\ exec_result = None

ExecSpawn ==
    /\ UNCHANGED <<retr_vars, cora_vars>>
    /\ exec_pc = "spawning"
    /\ \E o \in SpawnOutcomes(exec_command) :
          IF o.ok
          THEN /\ exec_pc' = "communicating"
               /\ exec_process' = "running"
               /\ UNCHANGED <<exec_exc, exec_result>>
          ELSE /\ exec_pc' = "returned"
               /\ exec_exc' = o.exc
               /\ exec_result' = execute_aws_command_except(o.exc)
               /\ UNCHANGED exec_process
    /\ UNCHANGED <<exec_command, exec_returncode, exec_stdout, exec_stderr>>

ExecCommunicateRaises ==
    /\ UNCHANGED <<retr_vars, cora_vars>>
    /\ exec_pc = "communicating"
    /\ \E e \in CommunicateExceptions :
          /\ exec_exc' = e
          /\ exec_result' = execute_aws_command_except(e)
    /\ exec_pc' = "returned"
    /\ UNCHANGED <<exec_command, exec_process, exec_returncode, exec_stdout,
                   exec_stderr>>

ExecCommunicateReturns ==
    /\ UNCHANGED <<retr_vars, cora_vars>>
    /\ exec_pc = "communicating"
    /\ \E rc \in ReturnCodes, out \in Streams, err \in Streams :
          /\ exec_returncode' = rc
          /\ exec_stdout' = out
          /\ exec_stderr' = err
          /\ exec_exc' = ExceptionAfterCommunicate(rc, out, err)
          /\ exec_result' = execute_aws_command_returns(rc, out, err)
    /\ exec_process' = "exited"
    /\ exec_pc' = "returned"
    /\ UNCHANGED exec_command

ExecNext ==
    \/ ExecSpawn
    \/ ExecCommunicateRaises
    \/ ExecCommunicateReturns

(***************************************************************************)
(* get_aws_cli_example on its own: the inputs are drawn in RetrInit, the    *)
(* call is one step (the coroutine never suspends).                        *)
(***************************************************************************)
\* 'e', 'C', '2', ' ', 's'
QueryAlphabet == {101, 67, 50, 32, 115}
RetrQueries == SeqsUpTo(QueryAlphabet, MaxQueryLen)

RetrInit ==
    /\ retr_pc = "ready"
    /\ retr_kb \in KnowledgeBases
    /\ retr_query \in RetrQueries
    /\ retr_result = None

RetrCall ==
    /\ UNCHANGED <<exec_vars, cora_vars>>
    /\ retr_pc = "ready"
    /\ retr_result' = PyStr(get_aws_cli_example(retr_kb, retr_query))
    /\ retr_pc' = "returned"
    /\ UNCHANGED <<retr_kb, retr_query>>

(***************************************************************************)
(* json.loads / json.dumps on the argument payloads the remote model sends *)
(***************************************************************************)
Dict(items) == [type |-> "dict", items |-> items]
List(items) == [type |-> "list", items |-> items]

\* "command"
CommandKey == <<99, 111, 109, 109, 97, 110, 100>>
\* "query"
QueryKey == <<113, 117, 101, 114, 121>>

\* '{"command": "exit 1"}'
PayloadExit1 ==
    <<123, 34, 99, 111, 109, 109, 97, 110, 100, 34, 58, 32, 34, 101, 120, 105,
      116, 32, 49, 34, 125>>
\* '{"command":"ls"}'
PayloadLsCompact ==
    <<123, 34, 99, 111, 109, 109, 97, 110, 100, 34, 58, 34, 108, 115, 34, 125>>
\* '{"query": "ec2"}'
PayloadQuery ==
    <<123, 34, 113, 117, 101, 114, 121, 34, 58, 32, 34, 101, 99, 50, 34, 125>>
\* '{"command": '
PayloadTruncated == <<123, 34, 99, 111, 109, 109, 97, 110, 100, 34, 58, 32>>
\* '[]'
PayloadList == <<91, 93>>
\* '{"command": 5}'
PayloadNumber ==
    <<123, 34, 99, 111, 109, 109, 97, 110, 100, 34, 58, 32, 53, 125>>

Payloads == {PayloadExit1, PayloadLsCompact, PayloadQuery, PayloadTruncated,
             PayloadList, PayloadNumber}

\* json.loads(text) for the payloads above: the parsed value, or the
\* JSONDecodeError ("Expecting value: line 1 column 13 (char 12)")
json_loads(text) ==
    CASE text = PayloadExit1 ->
           [ok |-> TRUE,
            value |-> Dict(<< <<CommandKey, PyStr(<<101, 120, 105, 116, 32, 49>>)>> >>)]
      [] text = PayloadLsCompact ->
           [ok |-> TRUE, value |-> Dict(<< <<CommandKey, PyStr(<<108, 115>>)>> >>)]
      [] text = PayloadQuery ->
           [ok |-> TRUE, value |-> Dict(<< <<QueryKey, PyStr(<<101, 99, 50>>)>> >>)]
      [] text = PayloadNumber ->
           [ok |-> TRUE, value |-> Dict(<< <<CommandKey, PyInt(5)>> >>)]
      [] text = PayloadList ->
           [ok |-> TRUE, value |-> List(<< >>)]
      [] text = PayloadTruncated ->
           [ok |-> FALSE,
            exc |-> Exc("JSONDecodeError",
                        <<69, 120, 112, 101, 99, 116, 105, 110, 103, 32, 118,
                          97, 108, 117, 101, 58, 32, 108, 105, 110, 101, 32,
                          49, 32, 99, 111, 108, 117, 109, 110, 32, 49, 51, 32,
                          40, 99, 104, 97, 114, 32, 49, 50, 41>>)]

RECURSIVE json_dumps(_)
RECURSIVE DumpItems(_)
RECURSIVE DumpElements(_)
\* '"k": v, "k2": v2'
DumpItems(items) ==
    IF items = <<>> THEN <<>>
    ELSE <<34>> \o items[1][1] \o <<34, 58, 32>> \o json_dumps(items[1][2])
         \o (IF Len(items) = 1 THEN <<>> ELSE <<44, 32>> \o DumpItems(Tail(items)))
DumpElements(items) ==
    IF items = <<>> THEN <<>>
    ELSE json_dumps(items[1])
         \o (IF Len(items) = 1 THEN <<>> ELSE <<44, 32>> \o DumpElements(Tail(items)))
\* json.dumps(value) with the default separators, for None, non-negative
\* ints, strings that need no escape, lists and dicts with such keys
json_dumps(v) ==
    CASE v.type = "NoneType" -> <<110, 117, 108, 108>>
      [] v.type = "int" -> Decimal(v.val)
      [] v.type = "str" -> <<34>> \o v.val \o <<34>>
      [] v.type = "list" -> <<91>> \o DumpElements(v.items) \o <<93>>
      [] v.type = "dict" -> <<123>> \o DumpItems(v.items) \o <<125>>

\* function_args["command"]: the value, a KeyError ("'command'") when the
\* dict has no such key, a TypeError when function_args is a list
\* faulty variant: function_args.get("command")
GetItemOrNone(args, key) ==
    IF args.type = "dict" /\ \E i \in 1..Len(args.items) : args.items[i][1] = key
    THEN [ok |-> TRUE,
          value |-> args.items[CHOOSE i \in 1..Len(args.items) :
                                   args.items[i][1] = key][2]]
    ELSE [ok |-> TRUE, value |-> None]
GetItem(args, key) ==
    IF args.type = "dict"
    THEN IF \E i \in 1..Len(args.items) : args.items[i][1] = key
         THEN [ok |-> TRUE,
               value |-> args.items[CHOOSE i \in 1..Len(args.items) :
                                        args.items[i][1] = key][2]]
         ELSE [ok |-> FALSE, exc |-> Exc("KeyError", <<39>> \o key \o <<39>>)]
    ELSE \* "list indices must be integers or slices, not str"
         [ok |-> FALSE,
          exc |-> Exc("TypeError",
                      <<108, 105, 115, 116, 32, 105, 110, 100, 105, 99, 101,
                        115, 32, 109, 117, 115, 116, 32, 98, 101, 32, 105, 110,
                        116, 101, 103, 101, 114, 115, 32, 111, 114, 32, 115,
                        108, 105, 99, 101, 115, 44, 32, 110, 111, 116, 32, 115,
                        116, 114>>)]

(***************************************************************************)
(* The function declarations and the messages                              *)
(***************************************************************************)
\* functions: name and the one required string parameter of each
functions ==
    << [name |-> "execute_aws_cli", required |-> <<CommandKey>>],
       [name |-> "get_aws_cli_example", required |-> <<QueryKey>>] >>

\* "You are CORA, a Cloud Operations and Resource Assistant. You help users
\*  interact with AWS resources using AWS CLI commands."
SystemContent ==
    <<89, 111, 117, 32, 97, 114, 101, 32, 67, 79, 82, 65, 44, 32, 97, 32, 67,
      108, 111, 117, 100, 32, 79, 112, 101, 114, 97, 116, 105, 111, 110, 115,
      32, 97, 110, 100, 32, 82, 101, 115, 111, 117, 114, 99, 101, 32, 65, 115,
      115, 105, 115, 116, 97, 110, 116, 46, 32, 89, 111, 117, 32, 104, 101,
      108, 112, 32, 117, 115, 101, 114, 115, 32, 105, 110, 116, 101, 114, 97,
      99, 116, 32, 119, 105, 116, 104, 32, 65, 87, 83, 32, 114, 101, 115, 111,
      117, 114, 99, 101, 115, 32, 117, 115, 105, 110, 103, 32, 65, 87, 83, 32,
      67, 76, 73, 32, 99, 111, 109, 109, 97, 110, 100, 115, 46>>

\* f"Query: {user_query}\nRelevant AWS CLI examples:\n{examples}"
UserContent(query, examples) ==
    <<81, 117, 101, 114, 121, 58, 32>> \o query
    \o <<10, 82, 101, 108, 101, 118, 97, 110, 116, 32, 65, 87, 83, 32, 67, 76,
         73, 32, 101, 120, 97, 109, 112, 108, 101, 115, 58, 10>>
    \o examples

SystemMessage == [role |-> "system", content |-> PyStr(SystemContent)]
UserMessage(query, examples) ==
    [role |-> "user", content |-> PyStr(UserContent(query, examples))]

\* messages = [system, user]: the list is bound anew, whatever `previous`
\* (the list of the call before) holds
\* faulty variant: the list of the previous call is kept and extended
InitialMessagesKeepingPrevious(previous, query, examples) ==
    previous \o <<SystemMessage, UserMessage(query, examples)>>
InitialMessages(previous, query, examples) ==
    <<SystemMessage, UserMessage(query, examples)>>

\* the assistant record of messages.extend
AssistantFunctionCallMessage(name, args) ==
    [role |-> "assistant", content |-> None,
     function_call |-> [name |-> name, arguments |-> json_dumps(args)]]

\* the function-result record of messages.extend
\* faulty variant: the result text is dropped
FunctionResultMessageEmpty(name, text) ==
    [role |-> "function", name |-> name, content |-> PyStr(<<>>)]
FunctionResultMessage(name, text) ==
    [role |-> "function", name |-> name, content |-> text]

\* self.deployment_name, as main() constructs the CORA
deployment_name == "gpt-4o-mini"

\* create(model=..., messages=messages, functions=functions, function_call="auto")
FirstRequest(msgs) ==
    [model |-> deployment_name, messages |-> msgs, functions |-> functions,
     function_call |-> "auto"]

\* create(model=..., messages=messages)
\* faulty variant: the second request declares the functions again
SecondRequestWithFunctions(msgs) == FirstRequest(msgs)
SecondRequest(msgs) == [model |-> deployment_name, messages |-> msgs]

(***************************************************************************)
(* What the remote model and the transport can answer                      *)
(***************************************************************************)
Message(content, function_call) ==
    [content |-> content, function_call |-> function_call]
Response(choices) == [choices |-> choices]
Reply(content, function_call) ==
    Response(<< [message |-> Message(content, function_call)] >>)
FunctionCall(name, arguments) == [name |-> name, arguments |-> arguments]

\* message contents: null, "", "Hello"
Contents == {None, PyStr(<<>>), PyStr(<<72, 101, 108, 108, 111>>)}

\* first replies: no choice at all, a plain answer, either declared function
\* with any payload
FirstResponses ==
    {Response(<< >>)}
    \cup {Reply(c, None) : c \in Contents}
    \cup {Reply(None, FunctionCall("execute_aws_cli", p)) : p \in Payloads}
    \cup {Reply(c, FunctionCall("get_aws_cli_example", p)) :
            c \in {None, PyStr(<<72, 101, 108, 108, 111>>)}, p \in Payloads}

\* second replies carry no function call (none was declared)
SecondResponses == {Response(<< >>)} \cup {Reply(c, None) : c \in Contents}

\* what client.chat.completions.create raises: "Connection error."
RemoteExceptions ==
    { Exc("APIConnectionError",
          <<67, 111, 110, 110, 101, 99, 116, 105, 111, 110, 32, 101, 114, 114,
            111, 114, 46>>) }

\* the bytes a child's stdout or stderr pipe delivers in a process_query
\* call: nothing (as for "exit 1", or "ls" in an empty directory), "o",
\* "o\n", and the undecodable 0xFF and 0xC3
ProcessStreams == { << >>, <<111>>, <<111, 10>>, <<255>>, <<195>> }

\* what communicate() hands back in a process_query call: every
\* (returncode, stdout, stderr) over the return codes and these streams, so
\* (1, "", "") and (0, "", "") among them; the command does not restrict it
ProcessResults ==
    { <<rc, out, err>> : rc \in ReturnCodes,
                         out \in ProcessStreams, err \in ProcessStreams }

\* the queries asked of the instance: "List EC2", "x", ""
UserQueries == { <<76, 105, 115, 116, 32, 69, 67, 50>>, <<120>>, << >> }

(***************************************************************************)
(* CORA.process_query                                                      *)
(***************************************************************************)
Pending == [kind |-> "pending"]
Returned(v) == [kind |-> "returned", value |-> v]
Raised(e) == [kind |-> "raised", exc |-> e]

\* "Error processing query: "
ErrorProcessingQuery ==
    <<69, 114, 114, 111, 114, 32, 112, 114, 111, 99, 101, 115, 115, 105, 110,
      103, 32, 113, 117, 101, 114, 121, 58, 32>>

\* "list index out of range": response.choices[0] on an empty list
IndexOutOfRange ==
    Exc("IndexError",
        <<108, 105, 115, 116, 32, 105, 110, 100, 101, 120, 32, 111, 117, 116,
          32, 111, 102, 32, 114, 97, 110, 103, 101>>)

\* except Exception as e: return f"Error processing query: {str(e)}"
\* faulty variant: the exception is raised again
process_query_except_propagates(e) == Raised(e)
process_query_except(e) == Returned(PyStr(ErrorProcessingQuery \o e.msg))

\* if function_name == "execute_aws_cli":
\* faulty variant: the function name is not tested
SelectsExecutorAlways(name) == TRUE
SelectsExecutor(name) == name = "execute_aws_cli"

\* return assistant_message.content
\* faulty variant: null content replaced by ""
DirectAnswerNeverNull(message) ==
    IF message.content = None THEN PyStr(<<>>) ELSE message.content
DirectAnswer(message) == message.content

\* lines 148-159 and 188: what the first reply leads to.
\*   [next |-> "raise", at, exc]            an exception, caught at line 190
\*   [next |-> "return", value]             line 188
\*   [next |-> "execute", command]          line 159
\* with function_name / function_args as far as they were bound
AfterFirstResponse(r) ==
    IF r.choices = <<>>
    THEN [next |-> "raise", at |-> "choices", exc |-> IndexOutOfRange,
          name |-> None, args |-> None]
    ELSE
    LET m == r.choices[1].message
    IN  IF m.function_call = None
        THEN [next |-> "return", value |-> DirectAnswer(m),
              name |-> None, args |-> None]
        ELSE
        LET name == m.function_call.name
            parsed == json_loads(m.function_call.arguments)
        IN  IF ~parsed.ok
            THEN [next |-> "raise", at |-> "json_loads", exc |-> parsed.exc,
                  name |-> PyStr(name), args |-> None]
            ELSE IF SelectsExecutor(name)
            THEN LET arg == GetItem(parsed.value, CommandKey)
                 IN  IF ~arg.ok
                     THEN [next |-> "raise", at |-> "command", exc |-> arg.exc,
                           name |-> PyStr(name), args |-> parsed.value]
                     ELSE [next |-> "execute", command |-> arg.value,
                           name |-> PyStr(name), args |-> parsed.value]
            ELSE [next |-> "return", value |-> DirectAnswer(m),
                  name |-> PyStr(name), args |-> parsed.value]

\* line 186: final_response.choices[0].message.content
AfterSecondResponse(r) ==
    IF r.choices = <<>>
    THEN [next |-> "raise", at |-> "choices", exc |-> IndexOutOfRange]
    ELSE [next |-> "return", value |-> r.choices[1].message.content]

CoraInit ==
    /\ knowledge_base \in KnowledgeBases
    /\ pc = "idle"
    /\ calls = 0
    /\ user_query = <<>>
    /\ retrievals = <<>>
    /\ messages = <<>>
    /\ requests = <<>>
    /\ response = None
    /\ function_name = None
    /\ function_args = None
    /\ executed = <<>>
    /\ result = None
    /\ final_response = None
    /\ caught = <<>>
    /\ outcome = Pending

\* lines 123-143: the call starts, retrieves the examples, builds the
\* messages and sends the first request
ProcessQuery ==
    /\ UNCHANGED <<retr_vars, exec_vars>>
    /\ pc = "idle"
    /\ calls < MaxCalls
    /\ \E q \in UserQueries :
          /\ user_query' = q
          /\ retrievals' = <<q>>
          /\ messages' = InitialMessages(messages, q,
                              get_aws_cli_example(knowledge_base, q))
    /\ requests' = <<FirstRequest(messages')>>
    /\ calls' = calls + 1
    /\ pc' = "request1"
    /\ response' = None
    /\ function_name' = None
    /\ function_args' = None
    /\ executed' = <<>>
    /\ result' = None
    /\ final_response' = None
    /\ caught' = <<>>
    /\ outcome' = Pending
    /\ UNCHANGED knowledge_base

\* the first create() raises
FirstRequestRaises ==
    /\ UNCHANGED <<retr_vars, exec_vars>>
    /\ pc = "request1"
    /\ \E e \in RemoteExceptions :
          /\ caught' = Append(caught, [at |-> "request1", exc |-> e])
          /\ outcome' = process_query_except(e)
    /\ pc' = "done"
    /\ UNCHANGED <<knowledge_base, calls, user_query, retrievals, messages,
                   requests, response, function_name, function_args, executed, result,
                   final_response>>

\* lines 144-159, 188, 190-192: the first reply arrives
FirstResponseArrives ==
    /\ UNCHANGED <<retr_vars, exec_vars>>
    /\ pc = "request1"
    /\ \E r \in FirstResponses :
          LET a == AfterFirstResponse(r)
          IN  /\ response' = r
              /\ function_name' = a.name
              /\ function_args' = a.args
              /\ CASE a.next = "raise" ->
                        /\ caught' = Append(caught, [at |-> a.at, exc |-> a.exc])
                        /\ outcome' = process_query_except(a.exc)
                        /\ pc' = "done"
                        /\ UNCHANGED executed
                   [] a.next = "return" ->
                        /\ outcome' = Returned(a.value)
                        /\ pc' = "done"
                        /\ UNCHANGED <<caught, executed>>
                   [] a.next = "execute" ->
                        /\ executed' = Append(executed, a.command)
                        /\ pc' = "spawning"
                        /\ UNCHANGED <<caught, outcome>>
    /\ UNCHANGED <<knowledge_base, calls, user_query, retrievals, messages,
                   requests, result, final_response>>

\* lines 160-183: execute_aws_command has returned `text` (having caught
\* `thrown` inside); the two records are appended and the second request is
\* sent
ExecutorReturns(text, thrown) ==
    /\ result' = text
    /\ caught' = caught \o thrown
    /\ messages' = messages \o
          << AssistantFunctionCallMessage(function_name.val, function_args),
             FunctionResultMessage(function_name.val, text) >>
    /\ requests' = Append(requests, SecondRequest(messages'))
    /\ pc' = "request2"
    /\ UNCHANGED <<knowledge_base, calls, user_query, retrievals, response,
                   function_name, function_args, executed, final_response, outcome>>

\* lines 24-28, 40-42: create_subprocess_shell returns a process or raises
Spawn ==
    /\ UNCHANGED <<retr_vars, exec_vars>>
    /\ pc = "spawning"
    /\ \E o \in SpawnOutcomes(executed[Len(executed)]) :
          IF o.ok
          THEN /\ pc' = "communicating"
               /\ UNCHANGED <<knowledge_base, calls, user_query, retrievals,
                              messages, requests, response, function_name,
                              function_args, executed, result, final_response,
                              caught, outcome>>
          ELSE ExecutorReturns(execute_aws_command_except(o.exc),
                               <<[at |-> "spawn", exc |-> o.exc]>>)

\* lines 29, 40-42: communicate() raises
CommunicateRaises ==
    /\ UNCHANGED <<retr_vars, exec_vars>>
    /\ pc = "communicating"
    /\ \E e \in CommunicateExceptions :
          ExecutorReturns(execute_aws_command_except(e),
                          <<[at |-> "communicate", exc |-> e]>>)

\* lines 29-42: communicate() returns the exit status and the two streams
CommunicateReturns ==
    /\ UNCHANGED <<retr_vars, exec_vars>>
    /\ pc = "communicating"
    /\ \E p \in ProcessResults :
          LET e == ExceptionAfterCommunicate(p[1], p[2], p[3])
          IN  ExecutorReturns(execute_aws_command_returns(p[1], p[2], p[3]),
                              IF e = None THEN <<>>
                              ELSE <<[at |-> "decode", exc |-> e]>>)

\* the second create() raises
SecondRequestRaises ==
    /\ UNCHANGED <<retr_vars, exec_vars>>
    /\ pc = "request2"
    /\ \E e \in RemoteExceptions :
          /\ caught' = Append(caught, [at |-> "request2", exc |-> e])
          /\ outcome' = process_query_except(e)
    /\ pc' = "done"
    /\ UNCHANGED <<knowledge_base, calls, user_query, retrievals, messages,
                   requests, response, function_name, function_args, executed, result,
                   final_response>>

\* lines 184-186, 190-192: the second reply arrives
SecondResponseArrives ==
    /\ UNCHANGED <<retr_vars, exec_vars>>
    /\ pc = "request2"
    /\ \E r \in SecondResponses :
          LET a == AfterSecondResponse(r)
          IN  /\ final_response' = r
              /\ IF a.next = "raise"
                 THEN /\ caught' = Append(caught, [at |-> a.at, exc |-> a.exc])
                      /\ outcome' = process_query_except(a.exc)
                 ELSE /\ outcome' = Returned(a.value)
                      /\ UNCHANGED caught
    /\ pc' = "done"
    /\ UNCHANGED <<knowledge_base, calls, user_query, retrievals, messages,
                   requests, response, function_name, function_args, executed, result>>

\* the caller has the outcome; the instance is ready for the next query.
\* Only `messages` is left as the call made it, to show that the next call
\* does not read it.
CallEnds ==
    /\ UNCHANGED <<retr_vars, exec_vars>>
    /\ pc = "done"
    /\ pc' = "idle"
    /\ requests' = <<>>
    /\ response' = None
    /\ function_name' = None
    /\ function_args' = None
    /\ executed' = <<>>
    /\ result' = None
    /\ final_response' = None
    /\ caught' = <<>>
    /\ outcome' = Pending
    /\ retrievals' = <<>>
    /\ UNCHANGED <<knowledge_base, calls, user_query, messages>>

CoraNext ==
    \/ ProcessQuery
    \/ FirstRequestRaises
    \/ FirstResponseArrives
    \/ Spawn
    \/ CommunicateRaises
    \/ CommunicateReturns
    \/ SecondRequestRaises
    \/ SecondResponseArrives
    \/ CallEnds

(***************************************************************************)
(* The specifications.  Each drives one part; the other parts stay parked.  *)
(***************************************************************************)
RetrParked ==
    /\ retr_pc = "parked"
    /\ retr_kb = <<>>
    /\ retr_query = <<>>
    /\ retr_result = None

ExecParked ==
    /\ exec_pc = "parked"
    /\ exec_command = None
    /\ exec_process = "none"
    /\ exec_returncode = 0
    /\ exec_stdout = <<>>
    /\ exec_stderr = <<>>
    /\ exec_exc = None
    /\ exec_result = None

CoraParked ==
    /\ knowledge_base = <<>>
    /\ pc = "parked"
    /\ calls = 0
    /\ user_query = <<>>
    /\ retrievals = <<>>
    /\ messages = <<>>
    /\ requests = <<>>
    /\ response = None
    /\ function_name = None
    /\ function_args = None
    /\ executed = <<>>
    /\ result = None
    /\ final_response = None
    /\ caught = <<>>
    /\ outcome = Pending

\* a CORA instance serving process_query calls
Init == RetrParked /\ ExecParked /\ CoraInit
Next == CoraNext
Spec == Init /\ [][Next]_vars

\* get_aws_cli_example on every knowledge base and query of the bounds
RetrieverInit == RetrInit /\ ExecParked /\ CoraParked
RetrieverNext == RetrCall
SpecRetriever == RetrieverInit /\ [][RetrieverNext]_vars

\* execute_aws_command on every command, exit status and stream of the bounds
ExecutorInit == RetrParked /\ ExecInit /\ CoraParked
ExecutorNext == ExecNext
SpecExecutor == ExecutorInit /\ [][ExecutorNext]_vars

(***************************************************************************)
(* The claims.  What the remote model sent is read off `response`; the     *)
(* payload classes below are stated from the JSON texts themselves, not    *)
(* from json_loads.                                                        *)
(***************************************************************************)
\* s begins with prefix
StartsWith(s, prefix) ==
    /\ Len(prefix) <= Len(s)
    /\ SubSeq(s, 1, Len(prefix)) = prefix
HasFirstMessage == response # None /\ response.choices # << >>
FirstMessage == response.choices[1].message
SelectsFunction == HasFirstMessage /\ FirstMessage.function_call # None
SelectedName == FirstMessage.function_call.name
SelectedArguments == FirstMessage.function_call.arguments

\* a JSON object whose "command" is a string, and that string
WellFormedCommandPayloads == {PayloadExit1, PayloadLsCompact}
CommandIn(payload) ==
    IF payload = PayloadExit1 THEN <<101, 120, 105, 116, 32, 49>>
    ELSE <<108, 115>>
\* not JSON
UnparseablePayloads == {PayloadTruncated}
\* JSON from which no "command" can be taken: an object without the key, a list
NoCommandPayloads == {PayloadQuery, PayloadList}
\* JSON object whose "command" is not a string
NonStringCommandPayloads == {PayloadNumber}

ErrorText(e) == PyStr(ErrorProcessingQuery \o e.msg)
LastCaught == caught[Len(caught)]
InExecutor == pc \in {"spawning", "communicating"}
ExecutorFaults == {"spawn", "communicate", "decode"}

\* C1 (as amended): process_query never raises.  Whatever fails in a call
\* (a completion request, reading the reply, json.loads, the "command"
\* lookup, the Executor), the call ends by returning to its caller: the text
\* "Error processing query: <message>" when the failure reaches the handler
\* of process_query, and the content of the second reply (a string, or null
\* when the model sent null) when the Executor absorbed the failure itself.
C1_NeverRaises ==
    /\ outcome.kind # "raised"
    /\ pc = "done" =>
         /\ outcome.kind = "returned"
         /\ caught # << >> =>
              IF LastCaught.at \in ExecutorFaults
              THEN /\ final_response # None
                   /\ outcome.value = final_response.choices[1].message.content
              ELSE outcome.value = ErrorText(LastCaught.exc)

\* C1 witness: the second completion request threw after the Executor ran,
\* and the call returned the error text
C1_Witness ==
    /\ pc = "done"
    /\ Len(caught) = 1
    /\ caught[1].at = "request2"
    /\ outcome.kind = "returned"
    /\ outcome.value.type = "str"
    /\ StartsWith(outcome.value.val, ErrorProcessingQuery)

\* C1 as stated: after any single injected failure (the command, if one was
\* extracted, being a string) the call returns a string
C1_Original ==
    (/\ pc = "done"
     /\ Len(caught) = 1
     /\ \A i \in 1..Len(executed) : executed[i].type = "str") =>
        (outcome.kind = "returned" /\ outcome.value.type = "str")

\* C2: when the first reply selects execute_aws_cli with a well-formed
\* argument, the Executor is invoked with exactly the command string of that
\* argument; while the Executor runs only request #1 has been issued; request
\* #2 exists only once the Executor has returned, and its last message is the
\* function-result message carrying the Executor's text.
C2_ExecutorThenSecondRequest ==
    (/\ SelectsFunction
     /\ SelectedName = "execute_aws_cli"
     /\ SelectedArguments \in WellFormedCommandPayloads) =>
        /\ executed = <<PyStr(CommandIn(SelectedArguments))>>
        /\ pc \in {"spawning", "communicating", "request2", "done"}
        /\ InExecutor => (Len(requests) = 1 /\ result = None)
        /\ ~InExecutor =>
             /\ result # None
             /\ result.type = "str"
             /\ Len(requests) = 2
             /\ LET sent == requests[2].messages
                IN  sent[Len(sent)] = [role |-> "function",
                                       name |-> "execute_aws_cli",
                                       content |-> result]

\* C2 witness: the command exited non-zero and its error text, "Error: o",
\* is in the second request
C2_Witness ==
    /\ pc = "request2"
    /\ SelectsFunction
    /\ SelectedArguments = PayloadLsCompact
    /\ executed = <<PyStr(<<108, 115>>)>>
    /\ result = PyStr(ErrorMarker \o <<111>>)
    /\ Len(requests) = 2

\* C3: the first request carries exactly the two declared functions with
\* function_call "auto", a second request carries neither keyword, there are
\* at most two requests and at most one Executor invocation per call.
C3_SingleShot ==
    /\ Len(requests) <= 2
    /\ Len(executed) <= 1
    /\ pc \notin {"idle", "parked"} => Len(requests) >= 1
    /\ Len(requests) >= 1 =>
         /\ DOMAIN requests[1] = {"model", "messages", "functions", "function_call"}
         /\ requests[1].function_call = "auto"
         /\ Len(requests[1].functions) = 2
         /\ requests[1].functions[1].name = "execute_aws_cli"
         /\ requests[1].functions[2].name = "get_aws_cli_example"
         /\ requests[1].functions[1].required = <<CommandKey>>
         /\ requests[1].functions[2].required = <<QueryKey>>
    /\ Len(requests) = 2 => DOMAIN requests[2] = {"model", "messages"}

\* C3 witness: a call that used the Executor once and sent both requests
C3_Witness ==
    /\ pc = "done"
    /\ Len(requests) = 2
    /\ Len(executed) = 1
    /\ final_response # None

\* C4: the first request of every call carries exactly [system, user], built
\* from this call's query, whatever an earlier call left in `messages`; the
\* second request carries those two followed by the assistant function-call
\* record and the function-result message.
C4_MessageShape ==
    /\ Len(requests) >= 1 =>
         LET sent == requests[1].messages
         IN  /\ Len(sent) = 2
             /\ sent[1] = [role |-> "system", content |-> PyStr(SystemContent)]
             /\ sent[2].role = "user"
             /\ sent[2].content =
                  PyStr(UserContent(user_query,
                            get_aws_cli_example(knowledge_base, user_query)))
    /\ Len(requests) = 2 =>
         LET sent == requests[2].messages
         IN  /\ Len(sent) = 4
             /\ SubSeq(sent, 1, 2) = requests[1].messages
             /\ sent[3].role = "assistant"
             /\ sent[3].content = None
             /\ sent[3].function_call.name = "execute_aws_cli"
             /\ sent[4].role = "function"
             /\ sent[4].name = "execute_aws_cli"
             /\ sent[4].content = result

\* C4 witness: the second call on an instance has sent its second request
C4_Witness ==
    /\ calls = 2
    /\ pc = "request2"
    /\ Len(requests) = 2
    /\ Len(requests[2].messages) = 4

\* C5 as stated: a command that exited zero yields its stdout text, one that
\* exited non-zero yields "Error: " followed by its stderr text.
C5_ExitStatusDecidesText ==
    (exec_pc = "returned" /\ exec_process = "exited") =>
        IF exec_returncode = 0
        THEN /\ decode(exec_stdout).ok
             /\ exec_result = PyStr(decode(exec_stdout).text)
        ELSE /\ decode(exec_stderr).ok
             /\ StartsWith(exec_result.val, ErrorMarker)
             /\ Contains(decode(exec_stderr).text, exec_result.val)

\* C6: an exception raised while spawning, communicating or decoding is
\* caught inside execute_aws_command; process_query gets the text
\* "Error executing command: <message>" as result and goes on to the second
\* request with that text as the function result.
C6_ExecutorNeverRaises ==
    \A i \in 1..Len(caught) :
        caught[i].at \in ExecutorFaults =>
            /\ i = 1
            /\ pc \in {"request2", "done"}
            /\ result = PyStr(ErrorExecutingCommand \o caught[i].exc.msg)
            /\ Len(requests) = 2
            /\ requests[2].messages[4] = [role |-> "function",
                                          name |-> "execute_aws_cli",
                                          content |-> result]
            /\ (pc = "request2" => outcome = Pending)

\* C6 witness: stdout could not be decoded and the second request is out
C6_Witness ==
    /\ pc = "request2"
    /\ Len(caught) = 1
    /\ caught[1].at = "decode"
    /\ caught[1].exc.type = "UnicodeDecodeError"
    /\ StartsWith(result.val, ErrorExecutingCommand)

\* ---- C7: the Retriever, stated on positions of the query and the key
\* q[i..j] is a whitespace-separated word of q
IsWordAt(q, i, j) ==
    /\ i <= j
    /\ \A k \in i..j : ~IsSpace(q[k])
    /\ i = 1 \/ IsSpace(q[i - 1])
    /\ j = Len(q) \/ IsSpace(q[j + 1])
\* some word of q occurs in key, letter case ignored
TopicMatches(key, q) ==
    \E i \in 1..Len(q), j \in 1..Len(q) :
        /\ IsWordAt(q, i, j)
        /\ \E off \in 0..(Len(key) - (j - i + 1)) :
              \A t \in 0..(j - i) :
                  LowerChar(q[i + t]) = LowerChar(key[off + 1 + t])
MatchedEntries(kb, q) == {n \in 1..Len(kb) : TopicMatches(kb[n].key, q)}
\* all examples of the matched entries, in knowledge-base order
Accumulator(kb, q) ==
    Flatten([n \in 1..Len(kb) |->
                IF n \in MatchedEntries(kb, q) THEN kb[n].examples ELSE << >>])

\* C7 (as amended): the Retriever returns the newline-joined accumulator of
\* all examples of every matching entry, in knowledge-base order, duplicates
\* kept, and the sentinel "No examples found" when the accumulator is empty:
\* when no entry matched, and also when every matching entry has no examples.
\* A non-matching query yields exactly the sentinel; the examples of a
\* matched topic appear in the output in registration order.
C7_Retriever ==
    retr_pc = "returned" =>
        LET acc == Accumulator(retr_kb, retr_query)
            hit == MatchedEntries(retr_kb, retr_query)
        IN  /\ retr_result.type = "str"
            /\ retr_result.val =
                 IF acc = << >> THEN NoExamplesFound ELSE join(NL, acc)
            /\ hit = {} => retr_result.val = NoExamplesFound
            /\ \A n \in hit :
                 retr_kb[n].examples # << >> =>
                     Contains(join(NL, retr_kb[n].examples), retr_result.val)

\* C7 witness: two entries matched ("s" is in "s3 ls" and in "S3 2") and the
\* example registered under both is returned twice
C7_Witness ==
    /\ retr_pc = "returned"
    /\ retr_kb = SmallKnowledgeBase
    /\ MatchedEntries(retr_kb, retr_query) = {2, 3}
    /\ retr_result.val =
         <<97, 119, 115, 32, 115, 51, 32, 108, 115>> \o NL \o NL
         \o <<97, 119, 115, 32, 115, 51, 32, 108, 115>>

\* C7 as stated: the sentinel exactly when nothing matched, else the joined
\* accumulator
C7_Original ==
    retr_pc = "returned" =>
        retr_result.val =
            IF MatchedEntries(retr_kb, retr_query) = {}
            THEN NoExamplesFound
            ELSE join(NL, Accumulator(retr_kb, retr_query))

\* ---- C8
\* the call ended with an error text, without the Executor and without a
\* second (or repeated first) request
FatalForQuery ==
    /\ pc = "done"
    /\ outcome.kind = "returned"
    /\ Len(caught) = 1
    /\ outcome.value = ErrorText(caught[1].exc)
    /\ executed = << >>
    /\ Len(requests) = 1

\* C8 (as amended): a payload that is not JSON (for either function), or,
\* for execute_aws_cli, JSON from which no "command" can be taken (an object
\* without the key, a non-object), is fatal for the query: error text, no
\* Executor, one request.  A payload whose "command" is present but not a
\* string is not rejected: the Executor is invoked with that value, fails
\* inside with "cmd must be a string", and the second request is issued.
C8_MalformedPayload ==
    SelectsFunction =>
        /\ (\/ SelectedArguments \in UnparseablePayloads
            \/ /\ SelectedName = "execute_aws_cli"
               /\ SelectedArguments \in NoCommandPayloads) => FatalForQuery
        /\ (/\ SelectedName = "execute_aws_cli"
            /\ SelectedArguments \in NonStringCommandPayloads) =>
               /\ executed = <<PyInt(5)>>
               /\ pc # "spawning" =>
                    /\ result = execute_aws_command_except(CmdMustBeAString)
                    /\ Len(requests) = 2

\* C8 witness: execute_aws_cli came with {"query": "ec2"}; the KeyError became
\* the returned text
C8_Witness ==
    /\ SelectsFunction
    /\ SelectedName = "execute_aws_cli"
    /\ SelectedArguments = PayloadQuery
    /\ FatalForQuery
    /\ caught[1].exc.type = "KeyError"

\* C8 as stated: every payload that is unparseable, lacks "command" or does
\* not match the one-required-string schema is fatal
C8_Original ==
    (/\ SelectsFunction
     /\ SelectedName = "execute_aws_cli"
     /\ SelectedArguments \in UnparseablePayloads \cup NoCommandPayloads
                              \cup NonStringCommandPayloads) =>
        (executed = << >> /\ Len(requests) = 1)

\* C9: a first reply without a function selection ends the call at once: the
\* reply's content is returned as it is (null and "" included), the Executor
\* is not invoked and no second request is issued.
C9_DirectAnswer ==
    (HasFirstMessage /\ FirstMessage.function_call = None) =>
        /\ pc = "done"
        /\ outcome = Returned(FirstMessage.content)
        /\ caught = << >>
        /\ executed = << >>
        /\ Len(requests) = 1
        /\ final_response = None

\* C9 witness: the reply had null content and null was returned
C9_Witness ==
    /\ pc = "done"
    /\ HasFirstMessage
    /\ FirstMessage.function_call = None
    /\ FirstMessage.content = None
    /\ outcome = Returned(None)

\* C10: a first reply that selects another function than execute_aws_cli
\* invokes neither the Executor nor (again) the Retriever, issues no second
\* request and appends nothing to the messages; with parseable arguments the
\* reply's content is returned, with unparseable arguments the error text.
C10_OtherFunction ==
    (SelectsFunction /\ SelectedName # "execute_aws_cli") =>
        /\ pc = "done"
        /\ executed = << >>
        /\ retrievals = <<user_query>>
        /\ Len(requests) = 1
        /\ messages = requests[1].messages
        /\ Len(messages) = 2
        /\ IF SelectedArguments \in UnparseablePayloads
           THEN /\ Len(caught) = 1
                /\ caught[1].exc.type = "JSONDecodeError"
                /\ outcome = Returned(ErrorText(caught[1].exc))
           ELSE /\ caught = << >>
                /\ outcome = Returned(FirstMessage.content)

\* C10 witness: get_aws_cli_example was selected with {"query": "ec2"} and
\* the call returned the reply's null content
C10_Witness ==
    /\ pc = "done"
    /\ SelectsFunction
    /\ SelectedName = "get_aws_cli_example"
    /\ SelectedArguments = PayloadQuery
    /\ outcome = Returned(None)

=============================================================================
